---------------------------- MODULE Spec2Model ----------------------------
(***************************************************************************)
(* The layered configuration store of mne/utils/config.py: get_config,     *)
(* set_config, get_config_path and their helpers, over the process         *)
(* environment (os.environ) and the JSON config file                       *)
(* <home>/.mne/mne-python.json.                                            *)
(*                                                                         *)
(* Python values are tagged records [ty, s]: ty is the Python type and s   *)
(* the text str() gives.  Dictionaries (os.environ, the parsed config) are *)
(* functions whose DOMAIN is the set of keys present.  A file's content is *)
(* the sequence of JSON tokens json.dump wrote to it.                      *)
(***************************************************************************)
EXTENDS Integers, Sequences, FiniteSets, TLC

VARIABLES
    env,            \* os.environ of the running process: name -> string
    fs,             \* the file system: home directory -> [exists, writable, mne, isfile, content]
    os_name,        \* os.name of the platform the process runs on
    temp_home_dir,  \* the module global _temp_home_dir (a Python value)
    atexit,         \* the directories atexit will rmtree at an orderly exit
    pc,             \* where the process is inside set_config ("idle" between calls)
    pend,           \* the locals of the set_config call in progress
    last,           \* the last call made: its arguments, result and warnings
    peer            \* a second process on the same file system, while it is not running

vars == <<env, fs, os_name, temp_home_dir, atexit, pc, pend, last, peer>>

----------------------------------------------------------------------------
(* Python values *)

Str(s) == [s |-> s, ty |-> "str"]

PathLike(s) == [s |-> s, ty |-> "path"]

IntVal(s) == [s |-> s, ty |-> "int"]

None == [s |-> "", ty |-> "NoneType"]

\* str(value), line 291
str(value) == Str(value.s)

\* _validate_type(item, types) accepts the item: it raises TypeError unless
\* the item is of one of the types
_validate_type(item, types) == item.ty \in types

EmptyDict == [k \in {} |-> ""]

\* dict.pop(key, None) / del d[key]
DictPop(d, key) == [k \in DOMAIN d \ {key} |-> d[k]]

\* d[key] = value
DictSet(d, key, value) == [k \in DOMAIN d \cup {key} |-> IF k = key THEN value ELSE d[k]]

\* d.update(other)
DictUpdate(d, other) ==
    [k \in DOMAIN d \cup DOMAIN other |-> IF k \in DOMAIN other THEN other[k] ELSE d[k]]

\* d.get(key, default), as a Python value
DictGet(d, key, default) == IF key \in DOMAIN d THEN Str(d[key]) ELSE default

\* str.startswith
startswith(s, prefix) ==
    /\ Len(s) >= Len(prefix)
    /\ SubSeq(s, 1, Len(prefix)) = prefix

----------------------------------------------------------------------------
(* The known configuration keys *)

known_config_types ==
    { "MNE_3D_OPTION_ANTIALIAS", "MNE_3D_OPTION_DEPTH_PEELING",
      "MNE_3D_OPTION_MULTI_SAMPLES", "MNE_3D_OPTION_SMOOTH_SHADING",
      "MNE_3D_OPTION_THEME", "MNE_BROWSE_RAW_SIZE", "MNE_BROWSER_BACKEND",
      "MNE_BROWSER_OVERVIEW_MODE", "MNE_BROWSER_PRECOMPUTE",
      "MNE_BROWSER_THEME", "MNE_BROWSER_USE_OPENGL", "MNE_CACHE_DIR",
      "MNE_COREG_ADVANCED_RENDERING", "MNE_COREG_COPY_ANNOT",
      "MNE_COREG_FULLSCREEN", "MNE_COREG_GUESS_MRI_SUBJECT",
      "MNE_COREG_HEAD_HIGH_RES", "MNE_COREG_HEAD_OPACITY",
      "MNE_COREG_HEAD_INSIDE", "MNE_COREG_INTERACTION",
      "MNE_COREG_MARK_INSIDE", "MNE_COREG_PREPARE_BEM",
      "MNE_COREG_ORIENT_TO_SURFACE", "MNE_COREG_SCALE_LABELS",
      "MNE_COREG_SCALE_BY_DISTANCE", "MNE_COREG_SCENE_SCALE",
      "MNE_COREG_WINDOW_HEIGHT", "MNE_COREG_WINDOW_WIDTH",
      "MNE_COREG_SUBJECTS_DIR", "MNE_CUDA_DEVICE",
      "MNE_CUDA_IGNORE_PRECISION", "MNE_DATA",
      "MNE_DATASETS_BRAINSTORM_PATH", "MNE_DATASETS_EEGBCI_PATH",
      "MNE_DATASETS_EPILEPSY_ECOG_PATH", "MNE_DATASETS_HF_SEF_PATH",
      "MNE_DATASETS_MEGSIM_PATH", "MNE_DATASETS_MISC_PATH",
      "MNE_DATASETS_MTRF_PATH", "MNE_DATASETS_SAMPLE_PATH",
      "MNE_DATASETS_SOMATO_PATH", "MNE_DATASETS_MULTIMODAL_PATH",
      "MNE_DATASETS_FNIRS_MOTOR_PATH", "MNE_DATASETS_OPM_PATH",
      "MNE_DATASETS_SPM_FACE_DATASETS_TESTS", "MNE_DATASETS_SPM_FACE_PATH",
      "MNE_DATASETS_TESTING_PATH", "MNE_DATASETS_VISUAL_92_CATEGORIES_PATH",
      "MNE_DATASETS_KILOWORD_PATH", "MNE_DATASETS_FIELDTRIP_CMC_PATH",
      "MNE_DATASETS_PHANTOM_4DBTI_PATH", "MNE_DATASETS_LIMO_PATH",
      "MNE_DATASETS_REFMEG_NOISE_PATH", "MNE_DATASETS_SSVEP_PATH",
      "MNE_DATASETS_ERP_CORE_PATH", "MNE_DATASETS_UCL_OPM_AUDITORY_PATH",
      "MNE_FORCE_SERIAL", "MNE_KIT2FIFF_STIM_CHANNELS",
      "MNE_KIT2FIFF_STIM_CHANNEL_CODING", "MNE_KIT2FIFF_STIM_CHANNEL_SLOPE",
      "MNE_KIT2FIFF_STIM_CHANNEL_THRESHOLD", "MNE_LOGGING_LEVEL",
      "MNE_MEMMAP_MIN_SIZE", "MNE_REPR_HTML", "MNE_SKIP_FTP_TESTS",
      "MNE_SKIP_NETWORK_TESTS", "MNE_SKIP_TESTING_DATASET_TESTS",
      "MNE_STIM_CHANNEL", "MNE_TQDM", "MNE_USE_CUDA", "MNE_USE_NUMBA",
      "SUBJECTS_DIR" }

known_config_wildcards ==
    { "MNE_STIM_CHANNEL", "MNE_DATASETS_FNIRS", "MNE_NIRS" }

\* IsNonStandardKey with the wildcard prefixes left out
IsNonStandardKey_exact(key) == key \notin known_config_types

\* The test of lines 293-294: the key is no standard config type.
IsNonStandardKey(key) ==
    /\ key \notin known_config_types
    /\ ~ \E k \in known_config_wildcards : startswith(key, k)

----------------------------------------------------------------------------
(* The JSON file format: json.dump(config, fid, sort_keys=True, indent=0)   *)
(* and json.load(fid).  A file holds the tokens of one JSON object: an      *)
(* opening brace, one token per "key": "value" member, a closing brace.     *)

\* The characters of keys in code point order (digits, upper case, the
\* underscore, lower case): Python compares the keys it sorts character by
\* character on their code points.
Ascii == "-./0123456789ABCDEFGHIJKLMNOPQRSTUVWXYZ_abcdefghijklmnopqrstuvwxyz~"

ord(c) == CHOOSE i \in 1..Len(Ascii) : SubSeq(Ascii, i, i) = c

\* a < b on Python strings: decided by the first character that differs,
\* a proper prefix being less
StrLess(a, b) ==
    LET n == IF Len(a) < Len(b) THEN Len(a) ELSE Len(b)
        differ == {i \in 1..n : SubSeq(a, i, i) # SubSeq(b, i, i)}
    IN  IF differ = {} THEN Len(a) < Len(b)
        ELSE LET i == CHOOSE d \in differ : \A e \in differ : d <= e
             IN  ord(SubSeq(a, i, i)) < ord(SubSeq(b, i, i))

\* sorted(keys)
RECURSIVE sorted(_)
sorted(keys) ==
    IF keys = {} THEN <<>>
    ELSE LET m == CHOOSE k \in keys : \A j \in keys \ {k} : StrLess(k, j)
         IN  <<m>> \o sorted(keys \ {m})

Tok(t, k, v) == [k |-> k, t |-> t, v |-> v]

LBrace == Tok("{", "", "")

RBrace == Tok("}", "", "")

\* json.dump(config, fid, sort_keys=True, indent=0): the text written
json_dump(config) ==
    LET ks == sorted(DOMAIN config)
    IN  <<LBrace>> \o [i \in 1..Len(ks) |-> Tok("member", ks[i], config[ks[i]])] \o <<RBrace>>

\* The members of a token sequence as a dict, a later member replacing an
\* earlier one of the same key.
RECURSIVE Members(_)
Members(toks) ==
    IF toks = <<>> THEN EmptyDict
    ELSE LET n == Len(toks)
         IN  DictUpdate(Members(SubSeq(toks, 1, n - 1)), [k \in {toks[n].k} |-> toks[n].v])

\* Whether json.load accepts the text (otherwise it raises ValueError)
json_valid(content) ==
    /\ Len(content) >= 2
    /\ content[1] = LBrace
    /\ content[Len(content)] = RBrace
    /\ \A i \in 2..(Len(content) - 1) : content[i].t = "member"

\* json.load(fid) of a text it accepts
json_load(content) == Members(SubSeq(content, 2, Len(content) - 1))

----------------------------------------------------------------------------
(* The file system.  DOMAIN fs is the set of home directories that exist;   *)
(* of each, whether the process may write under it, whether its .mne        *)
(* directory exists, whether .mne/mne-python.json is a file, and the text   *)
(* of that file.                                                            *)

NewDir == [content |-> <<>>, writable |-> TRUE, mne |-> FALSE, isfile |-> FALSE]

\* op.isdir(op.join(home, '.mne'))
isdir_mne(fs0, home) == home \in DOMAIN fs0 /\ fs0[home].mne

\* op.isfile(config_path)
isfile(fs0, home) == isdir_mne(fs0, home) /\ fs0[home].isfile

\* os.getenv(name): a Python value
getenv(name) == IF name \in DOMAIN env THEN Str(env[name]) ELSE None

\* The home directory of the user in the password database
PwHome == "/home/user"

\* os.path.expanduser('~') on a POSIX platform: $HOME when it is set
expanduser == IF "HOME" \in DOMAIN env THEN env["HOME"] ELSE PwHome

\* The names tempfile.mkdtemp() draws from; it returns one that does not exist
TempNames == {"/tmp/tmp1", "/tmp/tmp2"}

mkdtemp == CHOOSE n \in TempNames : n \notin DOMAIN fs

\* _get_extra_data_path that takes APPDATA whenever it is set
_get_extra_data_path_appdata_first(home_dir) ==
    LET found(h) == [home |-> h, mkdtemp |-> FALSE, exc |-> ""]
        h1 == IF home_dir = None THEN getenv("_MNE_FAKE_HOME_DIR") ELSE home_dir
    IN  IF h1 # None THEN found(h1.s)
        ELSE IF getenv("APPDATA") # None THEN found(getenv("APPDATA").s)
        ELSE IF getenv("USERPROFILE") # None THEN found(getenv("USERPROFILE").s)
        ELSE [home |-> "", mkdtemp |-> FALSE, exc |-> "FileNotFoundError"]

\* _get_extra_data_path on a POSIX platform that takes the temporary
\* directory whenever MNE_DONTWRITE_HOME is set, whatever its value
_get_extra_data_path_flag_set(home_dir) ==
    LET found(h) == [home |-> h, mkdtemp |-> FALSE, exc |-> ""]
        h1 == IF home_dir = None THEN getenv("_MNE_FAKE_HOME_DIR") ELSE home_dir
    IN  IF h1 # None THEN found(h1.s)
        ELSE IF "MNE_DONTWRITE_HOME" \in DOMAIN env
        THEN IF temp_home_dir = None
             THEN [home |-> mkdtemp, mkdtemp |-> TRUE, exc |-> ""]
             ELSE found(temp_home_dir.s)
        ELSE found(expanduser)

\* _get_extra_data_path(home_dir): the home directory it resolves (the path
\* returned is home/.mne), the exception it raises if any, and whether it
\* created the temporary home directory.
_get_extra_data_path(home_dir) ==
    LET found(h) == [home |-> h, mkdtemp |-> FALSE, exc |-> ""]
        h1 == IF home_dir = None THEN getenv("_MNE_FAKE_HOME_DIR") ELSE home_dir
    IN  IF h1 # None THEN found(h1.s)
        ELSE IF os_name = "nt"
        THEN LET APPDATA_DIR == getenv("APPDATA")
                 USERPROFILE_DIR == getenv("USERPROFILE")
             IN  IF APPDATA_DIR # None /\ isdir_mne(fs, APPDATA_DIR.s)
                 THEN found(APPDATA_DIR.s)
                 ELSE IF USERPROFILE_DIR # None
                 THEN found(USERPROFILE_DIR.s)
                 ELSE [home |-> "", mkdtemp |-> FALSE, exc |-> "FileNotFoundError"]
        ELSE IF "MNE_DONTWRITE_HOME" \in DOMAIN env /\ env["MNE_DONTWRITE_HOME"] = "true"
        THEN IF temp_home_dir = None
             THEN [home |-> mkdtemp, mkdtemp |-> TRUE, exc |-> ""]
             ELSE found(temp_home_dir.s)
        ELSE found(expanduser)

\* get_config_path(home_dir): the path as text
get_config_path(home_dir) ==
    LET r == _get_extra_data_path(home_dir)
    IN  IF r.exc # "" THEN r.exc ELSE r.home \o "/.mne" \o "/mne-python.json"

\* The file system once _get_extra_data_path has run with result r
FsResolved(r) == IF r.mkdtemp THEN DictSet(fs, r.home, NewDir) ELSE fs

\* _temp_home_dir if the directory made were not remembered
TempResolved_forgotten(r) == temp_home_dir

\* _temp_home_dir once _get_extra_data_path has run with result r
TempResolved(r) == IF r.mkdtemp THEN Str(r.home) ELSE temp_home_dir

\* The atexit callbacks once _get_extra_data_path has run with result r
AtexitResolved(r) == IF r.mkdtemp THEN Append(atexit, r.home) ELSE atexit

\* _load_config that raises whatever raise_error is
_load_config_strict(content, raise_error) ==
    IF json_valid(content)
    THEN [config |-> json_load(content), exc |-> "", warnings |-> {}]
    ELSE [config |-> EmptyDict, exc |-> "RuntimeError", warnings |-> {}]

\* _load_config that warns whatever raise_error is
_load_config_lenient(content, raise_error) ==
    IF json_valid(content)
    THEN [config |-> json_load(content), exc |-> "", warnings |-> {}]
    ELSE [config |-> EmptyDict, exc |-> "", warnings |-> {"corrupt"}]

\* _load_config(config_path, raise_error) on a file with this text
_load_config(content, raise_error) ==
    IF json_valid(content)
    THEN [config |-> json_load(content), exc |-> "", warnings |-> {}]
    ELSE IF raise_error
    THEN [config |-> EmptyDict, exc |-> "RuntimeError", warnings |-> {}]
    ELSE [config |-> EmptyDict, exc |-> "", warnings |-> {"corrupt"}]

----------------------------------------------------------------------------
(* get_config *)

\* What a call gave: the exception raised ("" if it returned), the value
\* returned, the mapping returned (for key=None), the warnings emitted, and
\* the home directory the path resolution found.
Result(exc, val, map, warnings, r) ==
    [home |-> r.home, mkdtemp |-> r.mkdtemp, exc |-> exc, warnings |-> warnings,
     val |-> val, map |-> map]

NoPath == [home |-> "", mkdtemp |-> FALSE, exc |-> ""]

\* The tuple known_config_types, as get_config('') returns it
KnownTuple == [s |-> "known_config_types", ty |-> "tuple"]

DictVal == [s |-> "", ty |-> "dict"]

\* ReadConfig that keeps the document of the last get_config(None,
\* use_env=False) in memory and gives it again
ReadConfig_cached(fs0, home) ==
    IF last.op = "get" /\ last.key = None /\ ~ last.flag /\ last.ret.exc = ""
    THEN [config |-> last.ret.map, exc |-> "", warnings |-> {}]
    ELSE IF ~ isfile(fs0, home)
    THEN [config |-> EmptyDict, exc |-> "", warnings |-> {}]
    ELSE _load_config(fs0[home].content, FALSE)

\* The document get_config reads at the resolved home: {} if there is no
\* file, else _load_config(config_path)
ReadConfig(fs0, home) ==
    IF ~ isfile(fs0, home)
    THEN [config |-> EmptyDict, exc |-> "", warnings |-> {}]
    ELSE _load_config(fs0[home].content, FALSE)

\* env_keys with the keys of the document left out of the union
env_keys_known_only(config) == known_config_types \cap DOMAIN env

\* The keys of the environment that get_config(None) overlays, lines 244-245
env_keys(config) == (DOMAIN config \cup known_config_types) \cap DOMAIN env

\* EnvHit that never takes the key from the environment before the file
EnvHit_never(key, use_env) == FALSE

\* EnvHit with use_env ignored
EnvHit_always(key, use_env) == key # None /\ key.s \in DOMAIN env

\* Line 231: the key is taken from the environment
EnvHit(key, use_env) == use_env /\ key # None /\ key.s \in DOMAIN env

\* KeyMissing with raise_error ignored
KeyMissing_always(raise_error, key, config) == key.s \notin DOMAIN config

\* Line 248: the key is missing and the caller asked for an error
KeyMissing(raise_error, key, config) == raise_error /\ key.s \notin DOMAIN config

get_config(key, default, raise_error, home_dir, use_env) ==
    IF ~ _validate_type(key, {"str", "NoneType"})
    THEN Result("TypeError", None, EmptyDict, {}, NoPath)
    ELSE IF key = Str("")
    THEN Result("", KnownTuple, EmptyDict, {}, NoPath)
    ELSE IF EnvHit(key, use_env)
    THEN Result("", Str(env[key.s]), EmptyDict, {}, NoPath)
    ELSE LET r == _get_extra_data_path(home_dir)
         IN  IF r.exc # ""
             THEN Result(r.exc, None, EmptyDict, {}, r)
             ELSE LET ld == ReadConfig(FsResolved(r), r.home)
                      config == ld.config
                  IN  IF key = None
                      THEN Result("", DictVal,
                                  IF use_env
                                  THEN DictUpdate(config, [k \in env_keys(config) |-> env[k]])
                                  ELSE config,
                                  ld.warnings, r)
                      ELSE IF KeyMissing(raise_error, key, config)
                      THEN Result("KeyError", None, EmptyDict, ld.warnings, r)
                      ELSE Result("", DictGet(config, key.s, default), EmptyDict,
                                  ld.warnings, r)

----------------------------------------------------------------------------
(* set_config *)

\* What set_config has done when it reaches line 314: the exception raised
\* before that ("" if none), the warnings, the resolved home, the new
\* document it holds in memory and the new os.environ.
Begun(exc, warnings, r, config, env1) ==
    [env |-> env1, config |-> config, home |-> r.home, mkdtemp |-> r.mkdtemp,
     exc |-> exc, warnings |-> warnings]

\* The warning of lines 293-295
KeyWarnings(key) == IF IsNonStandardKey(key) THEN {"non-standard"} ELSE {}

\* ConfigChanged that forgets the previous values
ConfigChanged_fresh(config, key, value) ==
    IF value = None THEN EmptyDict ELSE [k \in {key} |-> value.s]

\* ConfigChanged that stores the deletion sentinel as a value
ConfigChanged_null(config, key, value) == DictSet(config, key, value.s)

\* Lines 305-312: the document after the change
ConfigChanged(config, key, value) ==
    IF value = None THEN DictPop(config, key) ELSE DictSet(config, key, value.s)

\* EnvChanged that writes os.environ whatever set_env is
EnvChanged_unasked(key, value, set_env) ==
    IF value = None THEN DictPop(env, key) ELSE DictSet(env, key, value.s)

\* EnvChanged that leaves a deleted key in os.environ
EnvChanged_keep(key, value, set_env) ==
    IF value # None /\ set_env THEN DictSet(env, key, value.s) ELSE env

\* Lines 305-312: os.environ after the change
EnvChanged(key, value, set_env) ==
    IF value = None
    THEN IF set_env /\ key \in DOMAIN env THEN DictPop(env, key) ELSE env
    ELSE IF set_env THEN DictSet(env, key, value.s) ELSE env

\* set_config_begin that checks the value after the warning of line 295
set_config_begin_late(key, value, home_dir, set_env) ==
    IF ~ _validate_type(key, {"str"})
    THEN Begun("TypeError", {}, NoPath, EmptyDict, env)
    ELSE Begun("TypeError", KeyWarnings(key.s), NoPath, EmptyDict, env)

\* set_config, lines 286-312
set_config_begin(key, value, home_dir, set_env) ==
    IF ~ _validate_type(key, {"str"})
       \/ ~ _validate_type(value, {"str", "path", "NoneType"})
    THEN Begun("TypeError", {}, NoPath, EmptyDict, env)
    ELSE LET value1 == IF value # None THEN str(value) ELSE None
             warnings == KeyWarnings(key.s)
             r == _get_extra_data_path(home_dir)
         IN  IF r.exc # ""
             THEN Begun(r.exc, warnings, r, EmptyDict, env)
             ELSE LET fs1 == FsResolved(r)
                      ld == IF isfile(fs1, r.home)
                            THEN _load_config(fs1[r.home].content, TRUE)
                            ELSE [config |-> EmptyDict, exc |-> "", warnings |-> {}]
                  IN  IF ld.exc # ""
                      THEN Begun(ld.exc, warnings, r, EmptyDict, env)
                      ELSE Begun("", warnings, r,
                                 ConfigChanged(ld.config, key.s, value1),
                                 EnvChanged(key.s, value1, set_env))

\* do_mkdir that makes the missing parents too, as os.makedirs would
do_mkdir_parents(fs0, home) ==
    IF isdir_mne(fs0, home) THEN [fs |-> fs0, exc |-> ""]
    ELSE IF home \notin DOMAIN fs0
    THEN [fs |-> DictSet(fs0, home, [NewDir EXCEPT !.mne = TRUE]), exc |-> ""]
    ELSE IF ~ fs0[home].writable THEN [fs |-> fs0, exc |-> "PermissionError"]
    ELSE [fs |-> [fs0 EXCEPT ![home].mne = TRUE], exc |-> ""]

\* Lines 316-318: os.mkdir(directory) unless it is a directory
do_mkdir(fs0, home) ==
    IF isdir_mne(fs0, home) THEN [fs |-> fs0, exc |-> ""]
    ELSE IF home \notin DOMAIN fs0 THEN [fs |-> fs0, exc |-> "FileNotFoundError"]
    ELSE IF ~ fs0[home].writable THEN [fs |-> fs0, exc |-> "PermissionError"]
    ELSE [fs |-> [fs0 EXCEPT ![home].mne = TRUE], exc |-> ""]

\* Line 319: open(config_path, 'w') creates the file or truncates it
do_open(fs0, home) ==
    IF ~ fs0[home].writable THEN [fs |-> fs0, exc |-> "PermissionError"]
    ELSE [fs |-> [fs0 EXCEPT ![home].isfile = TRUE, ![home].content = <<>>], exc |-> ""]

\* Line 320: fid has written this much of the text from the start of the
\* file; what the file holds beyond it stays
do_write(fs0, home, text) ==
    LET old == fs0[home].content
    IN  [fs0 EXCEPT ![home].content = text \o SubSeq(old, Len(text) + 1, Len(old))]

\* Line 320 and the end of the with block: the text is written out in full
do_dump(fs0, home, config) == do_write(fs0, home, json_dump(config))

\* Lines 314-320
persist(fs0, home, config) ==
    LET m == do_mkdir(fs0, home)
    IN  IF m.exc # "" THEN m
        ELSE LET o == do_open(m.fs, home)
             IN  IF o.exc # "" THEN o
                 ELSE [fs |-> do_dump(o.fs, home, config), exc |-> ""]

\* set_config that assigns os.environ once the file is written
set_config_env_last(key, value, home_dir, set_env) ==
    LET b == set_config_begin(key, value, home_dir, set_env)
        fs1 == IF b.mkdtemp THEN DictSet(fs, b.home, NewDir) ELSE fs
    IN  IF b.exc # ""
        THEN [env |-> b.env, fs |-> fs1, home |-> b.home,
              mkdtemp |-> b.mkdtemp, exc |-> b.exc, warnings |-> b.warnings]
        ELSE LET w == persist(fs1, b.home, b.config)
             IN  [env |-> IF w.exc = "" THEN b.env ELSE env, fs |-> w.fs, home |-> b.home,
                  mkdtemp |-> b.mkdtemp,
                  exc |-> w.exc, warnings |-> b.warnings]

\* set_config as a whole: its outcome, os.environ and the file system after
set_config(key, value, home_dir, set_env) ==
    LET b == set_config_begin(key, value, home_dir, set_env)
        fs1 == IF b.mkdtemp THEN DictSet(fs, b.home, NewDir) ELSE fs
    IN  IF b.exc # ""
        THEN [env |-> b.env, fs |-> fs1, home |-> b.home,
              mkdtemp |-> b.mkdtemp, exc |-> b.exc, warnings |-> b.warnings]
        ELSE LET w == persist(fs1, b.home, b.config)
             IN  [env |-> b.env, fs |-> w.fs, home |-> b.home,
                  mkdtemp |-> b.mkdtemp, exc |-> w.exc, warnings |-> b.warnings]

----------------------------------------------------------------------------
(* The calls a process makes *)

NoPrev == [value |-> None, key |-> None, exc |-> "", op |-> "none", flag |-> FALSE]

\* A call: value is set_config's value or get_config's default, flag is
\* set_env or use_env, prev is the set_config call right before it (kept for
\* a set_config call).
Call(op, key, value, flag, raise_error, home_dir, ret, prev) ==
    [value |-> value, key |-> key, home_dir |-> home_dir, raise_error |-> raise_error,
     op |-> op, flag |-> flag, ret |-> ret, prev |-> prev]

NoCall == Call("none", None, None, FALSE, FALSE, None,
               Result("", None, EmptyDict, {}, NoPath), NoPrev)

Summary(c) ==
    IF c.op = "set"
    THEN [value |-> c.value, key |-> c.key, exc |-> c.ret.exc, op |-> c.op, flag |-> c.flag]
    ELSE NoPrev

\* The config file under home as a reader finds it
FileOf(fs0, home) ==
    IF isfile(fs0, home)
    THEN [content |-> fs0[home].content, isfile |-> TRUE]
    ELSE [content |-> <<>>, isfile |-> FALSE]

\* The locals of a set_config call between line 314 and its return: the
\* resolved home, the document to write, how much of its text fid has
\* written, and (history) the file as the call found it.
NoPend ==
    [config |-> EmptyDict, home |-> "", pos |-> 0,
     before |-> [content |-> <<>>, isfile |-> FALSE]]

\* A process that is not running: its os.environ, its module global, its
\* atexit callbacks and where it is in set_config.
Context(env0, temp0, atexit0, pc0, pend0, last0) ==
    [env |-> env0, temp_home_dir |-> temp0, atexit |-> atexit0,
     pc |-> pc0, pend |-> pend0, last |-> last0]

\* The second process before it has made any call
NoPeer == Context(EmptyDict, None, <<>>, "idle", NoPend, NoCall)

GetConfig(key, default, raise_error, home_dir, use_env) ==
    /\ pc = "idle"
    /\ LET g == get_config(key, default, raise_error, home_dir, use_env)
       IN  /\ fs' = FsResolved(g)
           /\ temp_home_dir' = TempResolved(g)
           /\ atexit' = AtexitResolved(g)
           /\ last' = Call("get", key, default, use_env, raise_error, home_dir, g, NoPrev)
    /\ UNCHANGED <<env, os_name, pc, pend, peer>>

SetConfig(key, value, home_dir, set_env) ==
    /\ pc = "idle"
    /\ LET c == set_config(key, value, home_dir, set_env)
       IN  /\ env' = c.env
           /\ fs' = c.fs
           /\ temp_home_dir' = TempResolved(c)
           /\ atexit' = AtexitResolved(c)
           /\ last' = Call("set", key, value, set_env, FALSE, home_dir,
                           Result(c.exc, None, EmptyDict, c.warnings, c), Summary(last))
    /\ UNCHANGED <<os_name, pc, pend, peer>>

\* get_config_path(home_dir) called by the process: the path returned is the
\* value of the call
GetConfigPath(home_dir) ==
    /\ pc = "idle"
    /\ LET r == _get_extra_data_path(home_dir)
           path == IF r.exc = "" THEN Str(get_config_path(home_dir)) ELSE None
       IN  /\ fs' = FsResolved(r)
           /\ temp_home_dir' = TempResolved(r)
           /\ atexit' = AtexitResolved(r)
           /\ last' = Call("path", None, None, FALSE, FALSE, home_dir,
                           Result(r.exc, path, EmptyDict, {}, r), NoPrev)
    /\ UNCHANGED <<env, os_name, pc, pend, peer>>

\* The atexit callbacks: shutil.rmtree(dir, ignore_errors=True) for each
RECURSIVE RunAtexit(_, _)
RunAtexit(fs0, callbacks) ==
    IF callbacks = <<>> THEN fs0
    ELSE RunAtexit([h \in DOMAIN fs0 \ {Head(callbacks)} |-> fs0[h]], Tail(callbacks))

\* The process exits in an orderly way and a later process run starts, with
\* the environment e it inherits.
Restart(e) ==
    /\ pc = "idle"
    /\ env' = e
    /\ fs' = RunAtexit(fs, atexit)
    /\ temp_home_dir' = None
    /\ atexit' = <<>>
    /\ last' = NoCall
    /\ UNCHANGED <<os_name, pc, pend, peer>>

\* Between two calls of the store something else rewrites the config file
\* and the environment: another program edits or removes the file, the
\* application assigns os.environ. The store is not called.
ExternalEdit(h, e) ==
    /\ pc = "idle"
    /\ PwHome \in DOMAIN fs
    /\ fs' = [fs EXCEPT ![PwHome] = h]
    /\ env' = e
    /\ UNCHANGED <<os_name, temp_home_dir, atexit, pc, pend, last, peer>>

----------------------------------------------------------------------------
(* set_cache_dir and set_memmap_min_size *)

\* op.exists(path): a home directory, its .mne directory or its config file
exists(fs0, path) ==
    \E h \in DOMAIN fs0 :
        \/ path = h
        \/ path = h \o "/.mne" /\ fs0[h].mne
        \/ path = h \o "/.mne" \o "/mne-python.json" /\ isfile(fs0, h)

\* A helper raised exc before it called set_config
Refused(exc) ==
    [env |-> env, fs |-> fs, home |-> "", mkdtemp |-> FALSE, exc |-> exc, warnings |-> {}]

\* set_cache_dir(cache_dir), lines 29-45
set_cache_dir(cache_dir) ==
    IF cache_dir # None /\ ~ exists(fs, cache_dir.s)
    THEN Refused("OSError")
    ELSE set_config(Str("MNE_CACHE_DIR"), cache_dir, None, FALSE)

\* set_memmap_min_size(memmap_min_size), lines 48-65; memmap_min_size[-1]
\* of an empty string raises IndexError
set_memmap_min_size(memmap_min_size) ==
    LET size == memmap_min_size.s
    IN  IF memmap_min_size # None /\ memmap_min_size.ty # "str"
        THEN Refused("ValueError")
        ELSE IF memmap_min_size # None /\ size = ""
        THEN Refused("IndexError")
        ELSE IF memmap_min_size # None
                /\ SubSeq(size, Len(size), Len(size)) \notin {"K", "M", "G"}
        THEN Refused("ValueError")
        ELSE set_config(Str("MNE_MEMMAP_MIN_SIZE"), memmap_min_size, None, FALSE)

SetCacheDir(cache_dir) ==
    /\ pc = "idle"
    /\ \E c \in {set_cache_dir(cache_dir)} :
           /\ env' = c.env
           /\ fs' = c.fs
           /\ temp_home_dir' = TempResolved(c)
           /\ atexit' = AtexitResolved(c)
           /\ last' = Call("set_cache_dir", Str("MNE_CACHE_DIR"), cache_dir, FALSE, FALSE,
                           None, Result(c.exc, None, EmptyDict, c.warnings, c),
                           Summary(last))
    /\ UNCHANGED <<os_name, pc, pend, peer>>

SetMemmapMinSize(memmap_min_size) ==
    /\ pc = "idle"
    /\ \E c \in {set_memmap_min_size(memmap_min_size)} :
           /\ env' = c.env
           /\ fs' = c.fs
           /\ temp_home_dir' = TempResolved(c)
           /\ atexit' = AtexitResolved(c)
           /\ last' = Call("set_memmap_min_size", Str("MNE_MEMMAP_MIN_SIZE"),
                           memmap_min_size, FALSE, FALSE, None,
                           Result(c.exc, None, EmptyDict, c.warnings, c), Summary(last))
    /\ UNCHANGED <<os_name, pc, pend, peer>>

----------------------------------------------------------------------------
(* get_subjects_dir *)

\* op.isdir(path): a home directory or its .mne directory
isdir(fs0, path) ==
    \E h \in DOMAIN fs0 : path = h \/ (path = h \o "/.mne" /\ fs0[h].mne)

\* _check_fname(fname, overwrite='read', must_exist=True, need_dir=True):
\* the name if it is an existing directory, else an error
_check_fname(fs0, fname) ==
    IF exists(fs0, fname.s) /\ isdir(fs0, fname.s)
    THEN [exc |-> "", val |-> fname]
    ELSE [exc |-> "OSError", val |-> None]

\* get_subjects_dir that asks the configuration first
get_subjects_dir_config_first(subjects_dir, raise_error) ==
    LET g == get_config(Str("SUBJECTS_DIR"), subjects_dir, raise_error, None, TRUE)
    IN  IF g.exc # "" \/ g.val = None THEN g
        ELSE LET c == _check_fname(FsResolved(g), g.val)
             IN  [g EXCEPT !.exc = c.exc, !.val = c.val]

\* get_subjects_dir(subjects_dir, raise_error), lines 371-399: what the call
\* gives, as get_config gives it
get_subjects_dir(subjects_dir, raise_error) ==
    IF ~ _validate_type(subjects_dir, {"str", "path", "NoneType"})
    THEN Result("TypeError", None, EmptyDict, {}, NoPath)
    ELSE LET g == IF subjects_dir = None
                  THEN get_config(Str("SUBJECTS_DIR"), None, raise_error, None, TRUE)
                  ELSE Result("", subjects_dir, EmptyDict, {}, NoPath)
         IN  IF g.exc # "" \/ g.val = None THEN g
             ELSE LET c == _check_fname(FsResolved(g), g.val)
                  IN  [g EXCEPT !.exc = c.exc, !.val = c.val]

GetSubjectsDir(subjects_dir, raise_error) ==
    /\ pc = "idle"
    /\ \E g \in {get_subjects_dir(subjects_dir, raise_error)} :
           /\ fs' = FsResolved(g)
           /\ temp_home_dir' = TempResolved(g)
           /\ atexit' = AtexitResolved(g)
           /\ last' = Call("get_subjects_dir", Str("SUBJECTS_DIR"), subjects_dir, TRUE,
                           raise_error, None, g, NoPrev)
    /\ UNCHANGED <<env, os_name, pc, pend, peer>>

----------------------------------------------------------------------------
(* set_config step by step: the steps at which another process, or the      *)
(* death of this one, can see or leave the file system in between.          *)

Running == "running"

\* The call in progress ends, raising exc ("" if it returns)
Finish(exc) ==
    /\ pc' = "idle"
    /\ pend' = NoPend
    /\ last' = [last EXCEPT !.ret.exc = exc]

\* Lines 286-312: validation, warning, path resolution, load, and the change
\* to the document in memory and to os.environ
SetConfigBegin(key, value, home_dir, set_env) ==
    /\ pc = "idle"
    /\ LET b == set_config_begin(key, value, home_dir, set_env)
           fs1 == FsResolved(b)
       IN  /\ env' = b.env
           /\ fs' = fs1
           /\ temp_home_dir' = TempResolved(b)
           /\ atexit' = AtexitResolved(b)
           /\ IF b.exc # ""
              THEN /\ pc' = "idle"
                   /\ pend' = NoPend
                   /\ last' = Call("set", key, value, set_env, FALSE, home_dir,
                                   Result(b.exc, None, EmptyDict, b.warnings, b),
                                   Summary(last))
              ELSE /\ pc' = "mkdir"
                   /\ pend' = [config |-> b.config, home |-> b.home, pos |-> 0,
                               before |-> FileOf(fs1, b.home)]
                   /\ last' = Call("set", key, value, set_env, FALSE, home_dir,
                                   Result(Running, None, EmptyDict, b.warnings, b),
                                   Summary(last))
    /\ UNCHANGED <<os_name, peer>>

\* Lines 316-318
SetConfigMkdir ==
    /\ pc = "mkdir"
    /\ LET m == do_mkdir(fs, pend.home)
       IN  IF m.exc # ""
           THEN Finish(m.exc) /\ UNCHANGED fs
           ELSE fs' = m.fs /\ pc' = "open" /\ UNCHANGED <<pend, last>>
    /\ UNCHANGED <<env, os_name, temp_home_dir, atexit, peer>>

\* Line 319
SetConfigOpen ==
    /\ pc = "open"
    /\ LET o == do_open(fs, pend.home)
       IN  IF o.exc # ""
           THEN Finish(o.exc) /\ UNCHANGED fs
           ELSE fs' = o.fs /\ pc' = "dump" /\ UNCHANGED <<pend, last>>
    /\ UNCHANGED <<env, os_name, temp_home_dir, atexit, peer>>

\* Line 320: the first n tokens of the text have reached the file; the call
\* returns once the whole text has
SetConfigDump(n) ==
    /\ pc = "dump"
    /\ LET text == json_dump(pend.config)
       IN  /\ n \in (pend.pos + 1)..Len(text)
           /\ fs' = do_write(fs, pend.home, SubSeq(text, 1, n))
           /\ IF n = Len(text)
              THEN Finish("")
              ELSE pend' = [pend EXCEPT !.pos = n] /\ UNCHANGED <<pc, last>>
    /\ UNCHANGED <<env, os_name, temp_home_dir, atexit, peer>>

\* Line 320 and the close of the with block for a text shorter than the
\* buffer of fid: the whole text is written in one write, at fid's offset 0
SetConfigFlush ==
    /\ pc = "dump"
    /\ SetConfigDump(Len(json_dump(pend.config)))

\* The process dies where it is (no atexit callback runs) and a later
\* process run starts, with the environment e it inherits.
Crash(e) ==
    /\ env' = e
    /\ temp_home_dir' = None
    /\ atexit' = <<>>
    /\ pc' = "idle"
    /\ pend' = NoPend
    /\ last' = NoCall
    /\ UNCHANGED <<fs, os_name, peer>>

\* The scheduler stops the running process where it is and runs the other
\* process: the two share the file system and nothing else.
Switch ==
    /\ peer' = Context(env, temp_home_dir, atexit, pc, pend, last)
    /\ env' = peer.env
    /\ temp_home_dir' = peer.temp_home_dir
    /\ atexit' = peer.atexit
    /\ pc' = peer.pc
    /\ pend' = peer.pend
    /\ last' = peer.last
    /\ UNCHANGED <<fs, os_name>>

----------------------------------------------------------------------------
(* Spec: the store on a POSIX platform with one home directory, a known key *)
(* and a non-standard key.                                                  *)

NumValues == 2

ValueNames == <<"file_value", "env_value", "/tmp/x", "other_value">>

Values == {ValueNames[i] : i \in 1..NumValues}

Keys == {"MNE_CACHE_DIR", "TOTALLY_UNKNOWN_KEY"}

Defaults == {None, Str("D")}

\* Every dict over a subset of keys
Dicts(keys, values) == UNION {[ks -> values] : ks \in SUBSET keys}

\* Texts json.load rejects: an empty file and a truncated one
CorruptTexts == {<<>>, <<LBrace, Tok("member", "MNE_CACHE_DIR", "file_value")>>}

\* The states a home directory can be in when a process starts
HomeStates(keys, values) ==
    {NewDir, [NewDir EXCEPT !.mne = TRUE]}
    \cup {[content |-> t, writable |-> TRUE, mne |-> TRUE, isfile |-> TRUE] :
            t \in {json_dump(d) : d \in Dicts(keys, values)} \cup CorruptTexts}

Envs == Dicts(Keys, Values)

GetKeys == {None, Str("")} \cup {Str(k) : k \in Keys}

SetKeys == {Str(k) : k \in Keys}

SetValues == {None} \cup {Str(v) : v \in Values}

InitFs == [{PwHome} -> HomeStates(Keys, Values)]

Init ==
    /\ os_name = "posix"
    /\ env \in Envs
    /\ fs \in InitFs
    /\ temp_home_dir = None
    /\ atexit = <<>>
    /\ pc = "idle"
    /\ pend = NoPend
    /\ last = NoCall
    /\ peer = NoPeer

Next ==
    \/ \E key \in GetKeys, default \in Defaults, raise_error \in BOOLEAN, use_env \in BOOLEAN :
            GetConfig(key, default, raise_error, None, use_env)
    \/ \E key \in SetKeys, value \in SetValues, set_env \in BOOLEAN :
            SetConfig(key, value, None, set_env)
    \/ \E e \in Envs : Restart(e)

Spec == Init /\ [][Next]_vars

----------------------------------------------------------------------------
(* SpecKinds: the same store over keys of every kind: an exact known key,   *)
(* a key that starts with a wildcard prefix and a key that matches nothing. *)

KindKeys == {"MNE_CACHE_DIR", "MNE_STIM_CHANNEL_7", "TOTALLY_UNKNOWN_KEY"}

KindValues == {"x"}

KindEnvs == Dicts(KindKeys, KindValues)

KindGetKeys == {None} \cup {Str(k) : k \in KindKeys}

KindSetKeys == {Str(k) : k \in KindKeys}

KindSetValues == {None} \cup {Str(v) : v \in KindValues}

KindInitFs == [{PwHome} -> HomeStates(KindKeys, KindValues)]

InitKinds ==
    /\ os_name = "posix"
    /\ env \in KindEnvs
    /\ fs \in KindInitFs
    /\ temp_home_dir = None
    /\ atexit = <<>>
    /\ pc = "idle"
    /\ pend = NoPend
    /\ last = NoCall
    /\ peer = NoPeer

NextKinds ==
    \/ \E key \in KindGetKeys, raise_error \in BOOLEAN, use_env \in BOOLEAN :
            GetConfig(key, None, raise_error, None, use_env)
    \/ \E key \in KindSetKeys, value \in KindSetValues, set_env \in BOOLEAN :
            SetConfig(key, value, None, set_env)

SpecKinds == InitKinds /\ [][NextKinds]_vars

----------------------------------------------------------------------------
(* SpecCrash: set_config taken step by step on a sound or absent config     *)
(* file, the process dying at any point.                                    *)

MaxTextLen == 4

\* The states of the home directory with no file or a file of valid JSON
SoundHomeStates ==
    {NewDir, [NewDir EXCEPT !.mne = TRUE]}
    \cup {[content |-> json_dump(d), writable |-> TRUE, mne |-> TRUE, isfile |-> TRUE] :
            d \in Dicts(Keys, Values)}

SoundInitFs == [{PwHome} -> SoundHomeStates]

InitCrash ==
    /\ os_name = "posix"
    /\ env \in Envs
    /\ fs \in SoundInitFs
    /\ temp_home_dir = None
    /\ atexit = <<>>
    /\ pc = "idle"
    /\ pend = NoPend
    /\ last = NoCall
    /\ peer = NoPeer

NextCrash ==
    \/ \E key \in SetKeys, value \in SetValues, set_env \in BOOLEAN :
            SetConfigBegin(key, value, None, set_env)
    \/ SetConfigMkdir
    \/ SetConfigOpen
    \/ \E n \in 1..MaxTextLen : SetConfigDump(n)
    \/ \E e \in Envs : Crash(e)

SpecCrash == InitCrash /\ [][NextCrash]_vars

----------------------------------------------------------------------------
(* SpecPath: the store on a POSIX platform where a key may also be a name   *)
(* the path resolution reads: MNE_DONTWRITE_HOME moves the config file to   *)
(* the temporary home directory.                                            *)

\* The environment variables _get_extra_data_path and expanduser read
ResolutionVars ==
    {"_MNE_FAKE_HOME_DIR", "APPDATA", "USERPROFILE", "MNE_DONTWRITE_HOME", "HOME"}

PathKeys == {"MNE_CACHE_DIR", "MNE_DONTWRITE_HOME"}

PathValues == {"true"}

PathEnvs == Dicts(PathKeys, PathValues)

PathGetKeys == {None} \cup {Str(k) : k \in PathKeys}

PathSetKeys == {Str(k) : k \in PathKeys}

PathSetValues == {None} \cup {Str(v) : v \in PathValues}

PathInitFs ==
    [{PwHome} ->
        {NewDir, [NewDir EXCEPT !.mne = TRUE]}
        \cup {[content |-> json_dump(d), writable |-> TRUE, mne |-> TRUE, isfile |-> TRUE] :
                d \in Dicts(PathKeys, PathValues)}]

InitPath ==
    /\ os_name = "posix"
    /\ env \in PathEnvs
    /\ fs \in PathInitFs
    /\ temp_home_dir = None
    /\ atexit = <<>>
    /\ pc = "idle"
    /\ pend = NoPend
    /\ last = NoCall
    /\ peer = NoPeer

NextPath ==
    \/ \E key \in PathGetKeys, default \in Defaults, raise_error \in BOOLEAN,
          use_env \in BOOLEAN :
            GetConfig(key, default, raise_error, None, use_env)
    \/ \E key \in PathSetKeys, value \in PathSetValues, set_env \in BOOLEAN :
            SetConfig(key, value, None, set_env)
    \/ GetConfigPath(None)
    \/ \E e \in PathEnvs : Restart(e)

SpecPath == InitPath /\ [][NextPath]_vars

----------------------------------------------------------------------------
(* SpecWin: path resolution on both platform conventions, with an explicit  *)
(* home_dir, the fake-home override and the Windows variables.              *)

AppData == "C:/AppData"

UserProfile == "C:/Users/u"

FakeHome == "/fake"

ExplicitHome == "/explicit"

\* What each variable names when it is set
WinVars ==
    [_MNE_FAKE_HOME_DIR |-> FakeHome, APPDATA |-> AppData, USERPROFILE |-> UserProfile]

WinEnvs == {[k \in ks |-> WinVars[k]] : ks \in SUBSET DOMAIN WinVars}

WinHomeDirs == {None, Str(ExplicitHome), Str(AppData)}

\* Every directory exists; APPDATA may hold a .mne directory of an older
\* version
WinInitFs ==
    {[h \in {PwHome, AppData, UserProfile, FakeHome, ExplicitHome} |->
        IF h = AppData THEN a ELSE NewDir] : a \in {NewDir, [NewDir EXCEPT !.mne = TRUE]}}

InitWin ==
    /\ os_name \in {"nt", "posix"}
    /\ env \in WinEnvs
    /\ fs \in WinInitFs
    /\ temp_home_dir = None
    /\ atexit = <<>>
    /\ pc = "idle"
    /\ pend = NoPend
    /\ last = NoCall
    /\ peer = NoPeer

NextWin ==
    \/ \E home_dir \in WinHomeDirs : GetConfigPath(home_dir)
    \/ \E home_dir \in WinHomeDirs, raise_error \in BOOLEAN :
            GetConfig(Str("MNE_CACHE_DIR"), None, raise_error, home_dir, TRUE)
    \/ \E home_dir \in WinHomeDirs, value \in {None, Str("x")} :
            SetConfig(Str("MNE_CACHE_DIR"), value, home_dir, FALSE)

SpecWin == InitWin /\ [][NextWin]_vars

----------------------------------------------------------------------------
(* SpecRace: two processes with no variable of the store in their           *)
(* environment run set_config and get_config on the same sound or absent    *)
(* config file, interleaved at the file system calls.                       *)

RaceValues == {"x"}

RaceInitFs ==
    [{PwHome} ->
        {NewDir}
        \cup {[content |-> json_dump(d), writable |-> TRUE, mne |-> TRUE, isfile |-> TRUE] :
                d \in Dicts(Keys, RaceValues)}]

InitRace ==
    /\ os_name = "posix"
    /\ env = EmptyDict
    /\ fs \in RaceInitFs
    /\ temp_home_dir = None
    /\ atexit = <<>>
    /\ pc = "idle"
    /\ pend = NoPend
    /\ last = NoCall
    /\ peer = NoPeer

NextRace ==
    \/ \E key \in SetKeys, value \in {None} \cup {Str(v) : v \in RaceValues} :
            SetConfigBegin(key, value, None, FALSE)
    \/ SetConfigMkdir
    \/ SetConfigOpen
    \/ SetConfigFlush
    \/ \E key \in SetKeys : GetConfig(key, None, FALSE, None, FALSE)
    \/ Switch

SpecRace == InitRace /\ [][NextRace]_vars

----------------------------------------------------------------------------
(* SpecArgs: the store called with arguments of every type: keys that are   *)
(* strings, None or numbers, values that are strings, paths, None or        *)
(* numbers.                                                                 *)

ArgTexts == {"file_value", "/tmp/x"}

ArgSetKeys == {Str("MNE_CACHE_DIR"), Str("TOTALLY_UNKNOWN_KEY"), IntVal("7")}

ArgSetValues == {None, Str("file_value"), PathLike("/tmp/x"), IntVal("7")}

ArgGetKeys == {None, Str("MNE_CACHE_DIR"), IntVal("7")}

ArgEnvs == Dicts({"MNE_CACHE_DIR"}, {"file_value"})

ArgInitFs == [{PwHome} -> HomeStates({"MNE_CACHE_DIR"}, {"file_value"})]

InitArgs ==
    /\ os_name = "posix"
    /\ env \in ArgEnvs
    /\ fs \in ArgInitFs
    /\ temp_home_dir = None
    /\ atexit = <<>>
    /\ pc = "idle"
    /\ pend = NoPend
    /\ last = NoCall
    /\ peer = NoPeer

NextArgs ==
    \/ \E key \in ArgGetKeys, use_env \in BOOLEAN :
            GetConfig(key, None, FALSE, None, use_env)
    \/ \E key \in ArgSetKeys, value \in ArgSetValues, set_env \in BOOLEAN :
            SetConfig(key, value, None, set_env)

SpecArgs == InitArgs /\ [][NextArgs]_vars

----------------------------------------------------------------------------
(* SpecHelpers: a process that starts with neither setting in its           *)
(* environment and calls set_cache_dir, set_memmap_min_size, set_config and *)
(* get_config on a sound or absent config file.                             *)

HelperKeys == {"MNE_CACHE_DIR", "MNE_MEMMAP_MIN_SIZE"}

CacheDirs == {None, Str(PwHome), Str("/missing")}

MemmapSizes == {None, Str("1M"), Str("10"), Str(""), IntVal("7")}

HelperInitFs ==
    [{PwHome} ->
        {NewDir}
        \cup {[content |-> json_dump(d), writable |-> TRUE, mne |-> TRUE, isfile |-> TRUE] :
                d \in {EmptyDict, [k \in HelperKeys |-> IF k = "MNE_CACHE_DIR" THEN PwHome ELSE "1M"]}}]

InitHelpers ==
    /\ os_name = "posix"
    /\ env = EmptyDict
    /\ fs \in HelperInitFs
    /\ temp_home_dir = None
    /\ atexit = <<>>
    /\ pc = "idle"
    /\ pend = NoPend
    /\ last = NoCall
    /\ peer = NoPeer

NextHelpers ==
    \/ \E cache_dir \in CacheDirs : SetCacheDir(cache_dir)
    \/ \E memmap_min_size \in MemmapSizes : SetMemmapMinSize(memmap_min_size)
    \/ \E set_env \in BOOLEAN :
         \/ SetConfig(Str("MNE_CACHE_DIR"), Str(PwHome), None, set_env)
         \/ SetConfig(Str("MNE_MEMMAP_MIN_SIZE"), Str("1M"), None, set_env)
    \/ \E key \in HelperKeys, use_env \in BOOLEAN :
            GetConfig(Str(key), None, FALSE, None, use_env)

SpecHelpers == InitHelpers /\ [][NextHelpers]_vars

----------------------------------------------------------------------------
(* SpecSubjects: get_subjects_dir over a SUBJECTS_DIR that names the home   *)
(* directory, nothing, or the config file (which is no directory).          *)

SubjectNames == {PwHome, "/missing", PwHome \o "/.mne" \o "/mne-python.json"}

SubjectArgs ==
    {None, PathLike(PwHome), IntVal("7")} \cup {Str(d) : d \in SubjectNames}

SubjectEnvs == Dicts({"SUBJECTS_DIR"}, SubjectNames)

SubjectInitFs ==
    [{PwHome} ->
        {NewDir}
        \cup {[content |-> json_dump(d), writable |-> TRUE, mne |-> TRUE, isfile |-> TRUE] :
                d \in Dicts({"SUBJECTS_DIR"}, SubjectNames)}]

InitSubjects ==
    /\ os_name = "posix"
    /\ env \in SubjectEnvs
    /\ fs \in SubjectInitFs
    /\ temp_home_dir = None
    /\ atexit = <<>>
    /\ pc = "idle"
    /\ pend = NoPend
    /\ last = NoCall
    /\ peer = NoPeer

NextSubjects ==
    \/ \E subjects_dir \in SubjectArgs, raise_error \in BOOLEAN :
            GetSubjectsDir(subjects_dir, raise_error)
    \/ \E value \in {None, Str(PwHome)}, set_env \in BOOLEAN :
            SetConfig(Str("SUBJECTS_DIR"), value, None, set_env)

SpecSubjects == InitSubjects /\ [][NextSubjects]_vars

----------------------------------------------------------------------------
(* SpecFlag: the store on a POSIX platform with MNE_DONTWRITE_HOME absent,  *)
(* 'true' or 'false' in the environment.                                    *)

FlagKeys == {"MNE_DONTWRITE_HOME"}

FlagValues == {"true", "false"}

FlagEnvs == Dicts(FlagKeys, FlagValues)

FlagInitFs ==
    [{PwHome} ->
        {NewDir}
        \cup {[content |-> json_dump(d), writable |-> TRUE, mne |-> TRUE, isfile |-> TRUE] :
                d \in Dicts(FlagKeys, FlagValues)}]

InitFlag ==
    /\ os_name = "posix"
    /\ env \in FlagEnvs
    /\ fs \in FlagInitFs
    /\ temp_home_dir = None
    /\ atexit = <<>>
    /\ pc = "idle"
    /\ pend = NoPend
    /\ last = NoCall
    /\ peer = NoPeer

NextFlag ==
    \/ \E key \in {None, Str("MNE_DONTWRITE_HOME")}, raise_error \in BOOLEAN,
          use_env \in BOOLEAN :
            GetConfig(key, None, raise_error, None, use_env)
    \/ \E value \in {None} \cup {Str(v) : v \in FlagValues}, set_env \in BOOLEAN :
            SetConfig(Str("MNE_DONTWRITE_HOME"), value, None, set_env)
    \/ GetConfigPath(None)
    \/ \E e \in FlagEnvs : Restart(e)

SpecFlag == InitFlag /\ [][NextFlag]_vars

----------------------------------------------------------------------------
(* SpecExternal: the store on a POSIX platform while the config file and    *)
(* the environment are also changed from outside the store between calls.   *)

ExternalValues == {"a", "b"}

ExternalEnvs == Dicts({"MNE_CACHE_DIR"}, ExternalValues)

ExternalHomeStates == HomeStates(Keys, ExternalValues)

ExternalInitFs == [{PwHome} -> {NewDir}]

InitExternal ==
    /\ os_name = "posix"
    /\ env = EmptyDict
    /\ fs \in ExternalInitFs
    /\ temp_home_dir = None
    /\ atexit = <<>>
    /\ pc = "idle"
    /\ pend = NoPend
    /\ last = NoCall
    /\ peer = NoPeer

NextExternal ==
    \/ \E key \in {None} \cup {Str(k) : k \in Keys}, default \in Defaults,
          raise_error \in BOOLEAN, use_env \in BOOLEAN :
            GetConfig(key, default, raise_error, None, use_env)
    \/ \E key \in SetKeys, value \in {None} \cup {Str(v) : v \in ExternalValues},
          set_env \in BOOLEAN :
            SetConfig(key, value, None, set_env)
    \/ \E h \in ExternalHomeStates, e \in ExternalEnvs : ExternalEdit(h, e)

SpecExternal == InitExternal /\ [][NextExternal]_vars

----------------------------------------------------------------------------
(* SpecShort: get_config where reaching the config file would show: the     *)
(* file is corrupt, MNE_DONTWRITE_HOME asks for a temporary directory not   *)
(* yet made, or the platform is Windows with USERPROFILE unset.             *)

ShortVars ==
    [USERPROFILE |-> UserProfile, MNE_CACHE_DIR |-> "env_value",
     MNE_DONTWRITE_HOME |-> "true"]

ShortEnvs == {[k \in ks |-> ShortVars[k]] : ks \in SUBSET DOMAIN ShortVars}

ShortGetKeys == {None, Str(""), Str("MNE_CACHE_DIR"), Str("MNE_DONTWRITE_HOME")}

ShortInitFs ==
    {[h \in {PwHome, UserProfile} |-> IF h = PwHome THEN s ELSE NewDir] :
        s \in HomeStates({"MNE_CACHE_DIR"}, {"file_value"})}

InitShort ==
    /\ os_name \in {"nt", "posix"}
    /\ env \in ShortEnvs
    /\ fs \in ShortInitFs
    /\ temp_home_dir = None
    /\ atexit = <<>>
    /\ pc = "idle"
    /\ pend = NoPend
    /\ last = NoCall
    /\ peer = NoPeer

NextShort ==
    \/ \E key \in ShortGetKeys, default \in Defaults, raise_error \in BOOLEAN,
          use_env \in BOOLEAN :
            GetConfig(key, default, raise_error, None, use_env)
    \/ \E value \in {None, Str("file_value")}, set_env \in BOOLEAN :
            SetConfig(Str("MNE_CACHE_DIR"), value, None, set_env)

SpecShort == InitShort /\ [][NextShort]_vars

----------------------------------------------------------------------------
(* SpecLazy: process runs that start with no config file, under the user's  *)
(* home, under a home_dir that does not exist, or with MNE_DONTWRITE_HOME   *)
(* set, one run after another.                                              *)

MissingHome == "/missing"

LazyHomeDirs == {None, Str(MissingHome)}

LazyEnvs == Dicts({"MNE_DONTWRITE_HOME"}, {"true"})

LazyInitFs == [{PwHome} -> {NewDir, [NewDir EXCEPT !.mne = TRUE]}]

InitLazy ==
    /\ os_name = "posix"
    /\ env \in LazyEnvs
    /\ fs \in LazyInitFs
    /\ temp_home_dir = None
    /\ atexit = <<>>
    /\ pc = "idle"
    /\ pend = NoPend
    /\ last = NoCall
    /\ peer = NoPeer

NextLazy ==
    \/ \E key \in {None, Str("MNE_CACHE_DIR")}, default \in Defaults,
          raise_error \in BOOLEAN, home_dir \in LazyHomeDirs :
            GetConfig(key, default, raise_error, home_dir, FALSE)
    \/ \E home_dir \in LazyHomeDirs : GetConfigPath(home_dir)
    \/ \E value \in {None, Str("x")}, home_dir \in LazyHomeDirs :
            SetConfig(Str("MNE_CACHE_DIR"), value, home_dir, FALSE)
    \/ \E e \in LazyEnvs : Restart(e)

SpecLazy == InitLazy /\ [][NextLazy]_vars

----------------------------------------------------------------------------
(* SpecFail: set_config where the write can fail: the home directory is     *)
(* read-only, or the home_dir given does not exist.                         *)

FailHomeStates ==
    {[s EXCEPT !.writable = w] :
        s \in HomeStates({"MNE_CACHE_DIR"}, {"old_value"}), w \in BOOLEAN}

FailInitFs == [{PwHome} -> FailHomeStates]

FailEnvs == Dicts({"MNE_CACHE_DIR"}, {"env_value"})

InitFail ==
    /\ os_name = "posix"
    /\ env \in FailEnvs
    /\ fs \in FailInitFs
    /\ temp_home_dir = None
    /\ atexit = <<>>
    /\ pc = "idle"
    /\ pend = NoPend
    /\ last = NoCall
    /\ peer = NoPeer

NextFail ==
    \/ \E value \in {None, Str("new_value")}, home_dir \in LazyHomeDirs,
          set_env \in BOOLEAN :
            SetConfig(Str("MNE_CACHE_DIR"), value, home_dir, set_env)
    \/ \E home_dir \in LazyHomeDirs, use_env \in BOOLEAN :
            GetConfig(Str("MNE_CACHE_DIR"), None, FALSE, home_dir, use_env)

SpecFail == InitFail /\ [][NextFail]_vars

----------------------------------------------------------------------------
(* What the claims speak of *)

\* The document the config file under home holds: the mapping its text
\* denotes, the empty mapping if there is no file or it is not valid JSON
Document(home) ==
    IF home \in DOMAIN fs /\ fs[home].mne /\ fs[home].isfile
       /\ json_valid(fs[home].content)
    THEN json_load(fs[home].content)
    ELSE EmptyDict

\* The config file under home exists and is not valid JSON
Corrupt(home) ==
    /\ home \in DOMAIN fs /\ fs[home].mne /\ fs[home].isfile
    /\ ~ json_valid(fs[home].content)

\* The effective value of key k: environment, then document, then default
Effective(k, D, E) ==
    IF E /\ k \in DOMAIN env THEN Str(env[k])
    ELSE IF k \in DOMAIN Document(PwHome) THEN Str(Document(PwHome)[k])
    ELSE D

\* The last call was set_config(k, v, set_env=S) and it returned
DidSet(c, k, v, S) ==
    /\ c.op = "set" /\ c.key = Str(k) /\ c.value = v /\ c.flag = S
    /\ c.ret.exc = ""

(* C1: get_config(k, default=D, use_env=E) returns the environment value of *)
(* k if E and k is in the environment, otherwise the document value of k if *)
(* k is in the config file, otherwise D; every recorded get_config call     *)
(* returned that; and after set_config(k, "file_value", set_env=False) with *)
(* k = "env_value" in the environment, get_config(k) is "env_value" and     *)
(* get_config(k, use_env=False) is "file_value".                            *)
C1_Precedence ==
    /\ \A k \in Keys, D \in Defaults, E \in BOOLEAN :
         LET g == get_config(Str(k), D, FALSE, None, E)
         IN  g.exc = "" /\ g.val = Effective(k, D, E)
    /\ (last.op = "get" /\ last.key.s \in Keys /\ ~ last.raise_error)
         => (last.ret.exc = "" /\ last.ret.val = Effective(last.key.s, last.value, last.flag))
    /\ \A k \in Keys :
         (DidSet(last, k, Str("file_value"), FALSE) /\ k \in DOMAIN env /\ env[k] = "env_value")
         => /\ get_config(Str(k), None, FALSE, None, TRUE).val = Str("env_value")
            /\ get_config(Str(k), None, FALSE, None, FALSE).val = Str("file_value")

C1_Witness ==
    \E k \in Keys :
        /\ DidSet(last, k, Str("file_value"), FALSE)
        /\ k \in DOMAIN env /\ env[k] = "env_value"
        /\ get_config(Str(k), None, FALSE, None, TRUE).val = Str("env_value")
        /\ get_config(Str(k), None, FALSE, None, FALSE).val = Str("file_value")

(* C9: get_config(k, raise_error=True) raises KeyError exactly when k is in *)
(* neither the environment (when use_env) nor the config document;          *)
(* otherwise it returns the value of the first source that has k; and with  *)
(* raise_error false no call raises KeyError.                               *)
C9_StrictLookup ==
    /\ \A k \in Keys, D \in Defaults, E \in BOOLEAN :
         LET g == get_config(Str(k), D, TRUE, None, E)
             absent == ~ (E /\ k \in DOMAIN env) /\ k \notin DOMAIN Document(PwHome)
         IN  /\ (g.exc = "KeyError") <=> absent
             /\ ~ absent => (g.exc = "" /\ g.val = Effective(k, D, E))
    /\ \A key \in GetKeys, D \in Defaults, E \in BOOLEAN :
         get_config(key, D, FALSE, None, E).exc # "KeyError"
    /\ (last.op = "get" /\ last.ret.exc = "KeyError")
         => /\ last.raise_error
            /\ ~ (last.flag /\ last.key.s \in DOMAIN env)
            /\ last.key.s \notin DOMAIN Document(PwHome)

C9_Witness ==
    /\ last.op = "get" /\ last.raise_error /\ last.flag
    /\ last.ret.exc = "KeyError"
    /\ last.key.s \in Keys
    /\ DOMAIN env # {} /\ DOMAIN Document(PwHome) # {}

\* The mapping get_config(None, use_env=E) is to return
Snapshot(E) ==
    LET doc == Document(PwHome)
        overlaid == {k \in DOMAIN env : k \in known_config_types \/ k \in DOMAIN doc}
    IN  IF E
        THEN [k \in DOMAIN doc \cup overlaid |-> IF k \in overlaid THEN env[k] ELSE doc[k]]
        ELSE doc

Read(k) == get_config(Str(k), None, FALSE, None, FALSE)

\* Call c was a set_config on key k that returned
OkSetOn(c, k) == c.op = "set" /\ c.key = Str(k) /\ c.exc = ""

(* C2: once set_config(k, v) has returned, for either set_env,              *)
(* get_config(k, use_env=False) returns v, and it keeps returning v: every  *)
(* step that is not a set_config on k that returned (a set_config on        *)
(* another key, a failed call, a get_config, the start of a later process   *)
(* run) leaves what get_config(k, use_env=False) returns unchanged.         *)
C2_RoundTrip ==
    [][\A k \in Keys :
         IF last'.op = "set" /\ last'.key = Str(k) /\ last'.ret.exc = ""
         THEN last'.value # None
              => (Read(k)'.exc = "" /\ Read(k)'.val = str(last'.value))
         ELSE Read(k)' = Read(k)]_vars

\* k was set, then another key was set, and k still reads as it was set
C2_Witness ==
    \E k \in Keys, j \in Keys :
        /\ k # j
        /\ OkSetOn(last.prev, k) /\ last.prev.value # None
        /\ last.op = "set" /\ last.key = Str(j) /\ last.ret.exc = "" /\ last.value # None
        /\ Read(k).val = last.prev.value
        /\ Read(j).val = last.value

\* The calls set_config(k, v); set_config(k, None) have just been made, both
\* with the default set_env=True, and both returned
SetThenDeleted(k) ==
    /\ DidSet(last, k, None, TRUE)
    /\ OkSetOn(last.prev, k) /\ last.prev.value # None /\ last.prev.flag

(* C3: for any key k, valid value v and default D, after set_config(k, v)   *)
(* and then set_config(k, None), get_config(k, default=D) returns D.        *)
C3_Deletion ==
    \A k \in PathKeys, D \in Defaults :
        SetThenDeleted(k)
        => LET g == get_config(Str(k), D, FALSE, None, TRUE)
           IN  g.exc = "" /\ g.val = D

(* C3 holds of the keys that are not environment variables the path         *)
(* resolution reads: there the deletion is read back as the default D.      *)
C3_DeletionOfConfigKeys ==
    \A k \in PathKeys \ ResolutionVars, D \in Defaults :
        SetThenDeleted(k)
        => LET g == get_config(Str(k), D, FALSE, None, TRUE)
           IN  g.exc = "" /\ g.val = D

\* MNE_CACHE_DIR was set and deleted while the config file was in the
\* temporary home directory, a document being left under the user's home
C3_Witness ==
    /\ SetThenDeleted("MNE_CACHE_DIR")
    /\ last.ret.home \in TempNames
    /\ DOMAIN Document(PwHome) # {}
    /\ get_config(Str("MNE_CACHE_DIR"), Str("D"), FALSE, None, TRUE).val = Str("D")

(* C5: when the config file exists and is not valid JSON, set_config(k, v), *)
(* v = None included, raises RuntimeError, leaves the file system as it was *)
(* and leaves the environment as it was, also with set_env=True.            *)
C5_CorruptWrite ==
    [][(last'.op = "set" /\ Corrupt(PwHome))
         => (last'.ret.exc = "RuntimeError" /\ fs' = fs /\ env' = env)]_vars

C5_Witness ==
    /\ last.op = "set" /\ last.ret.exc = "RuntimeError" /\ last.flag
    /\ last.value # None /\ last.key.s \notin DOMAIN env
    /\ Corrupt(PwHome)

\* get_config call c reads the config file: the key is not '' and is not
\* taken from the environment
ReachesFile(c) ==
    /\ c.key # Str("")
    /\ ~ (c.flag /\ c.key # None /\ c.key.s \in DOMAIN env)

(* C6: when the config file exists and is not valid JSON, a get_config call *)
(* that reaches the file warns, raises no RuntimeError and gives what an    *)
(* empty document gives: the default for a key, KeyError under              *)
(* raise_error=True, for key=None the environment overlay alone (nothing    *)
(* with use_env=False); the file system is left as it was.                  *)
C6_CorruptRead ==
    [][(last'.op = "get" /\ Corrupt(PwHome) /\ ReachesFile(last'))
         => /\ fs' = fs /\ env' = env
            /\ last'.ret.warnings = {"corrupt"}
            /\ IF last'.key = None
               THEN /\ last'.ret.exc = ""
                    /\ last'.ret.map =
                         IF last'.flag
                         THEN [k \in DOMAIN env \cap known_config_types |-> env[k]]
                         ELSE EmptyDict
               ELSE IF last'.raise_error
               THEN last'.ret.exc = "KeyError"
               ELSE last'.ret.exc = "" /\ last'.ret.val = last'.value]_vars

C6_Witness ==
    /\ last.op = "get" /\ last.key = None /\ last.flag
    /\ Corrupt(PwHome)
    /\ last.ret.warnings = {"corrupt"}
    /\ DOMAIN env = {"MNE_CACHE_DIR", "TOTALLY_UNKNOWN_KEY"}
    /\ last.ret.map = [k \in {"MNE_CACHE_DIR"} |-> env[k]]

(* C7: a set_config(k, None, set_env=S) that returned leaves k out of the   *)
(* document of the config file it wrote; with S true k is out of the        *)
(* environment and the other variables are as before; with S false the      *)
(* environment is as before; and deleting a key that is in neither place    *)
(* returns without error.                                                   *)
C7_DeletionSentinel ==
    [][(last'.op = "set" /\ last'.value = None)
         => LET k == last'.key.s
            IN  /\ last'.ret.exc = ""
                     => /\ k \notin DOMAIN Document(last.ret.home)'
                        /\ isfile(fs, last.ret.home)'
                        /\ last'.flag => env' = DictPop(env, k)
                        /\ ~ last'.flag => env' = env
                /\ (k \notin DOMAIN env /\ k \notin DOMAIN Document(PwHome)
                      /\ ~ Corrupt(PwHome))
                     => last'.ret.exc = ""]_vars

\* The key was deleted from both places it was in
C7_Witness ==
    \E k \in Keys :
        /\ DidSet(last, k, None, TRUE)
        /\ OkSetOn(last.prev, k) /\ last.prev.value # None /\ last.prev.flag
        /\ k \notin DOMAIN env /\ k \notin DOMAIN Document(PwHome)
        /\ DOMAIN env # {}

\* The keys of SpecKinds that are standard: one by exact match, one by the
\* wildcard prefix MNE_STIM_CHANNEL
StandardKindKeys == {"MNE_CACHE_DIR", "MNE_STIM_CHANNEL_7"}

(* C8: set_config(k, v) warns of a non-standard key exactly when k is no    *)
(* exact known key and starts with no wildcard prefix (TOTALLY_UNKNOWN_KEY  *)
(* warns, MNE_CACHE_DIR and MNE_STIM_CHANNEL_7 do not), and the             *)
(* write is the same either way: unless the file is corrupt the call        *)
(* returns, the document maps k to v (or lacks k for v = None) with its     *)
(* other keys as before, and get_config(k, use_env=False) returns v.        *)
C8_KnownKeyWarning ==
    [][\A k \in KindKeys :
         (last'.op = "set" /\ last'.key = Str(k))
         => LET v == last'.value
            IN  /\ ("non-standard" \in last'.ret.warnings) <=> (k \notin StandardKindKeys)
                /\ last'.ret.warnings \subseteq {"non-standard"}
                /\ (last'.ret.exc = "") <=> ~ Corrupt(PwHome)
                /\ last'.ret.exc = ""
                     => /\ Document(PwHome)' =
                             IF v = None THEN DictPop(Document(PwHome), k)
                             ELSE DictSet(Document(PwHome), k, v.s)
                        /\ Read(k)'.exc = ""
                        /\ Read(k)'.val = v]_vars

\* The non-standard key was stored with a warning, after the wildcard key
\* was stored without one
C8_Witness ==
    /\ DidSet(last, "TOTALLY_UNKNOWN_KEY", Str("x"), TRUE)
    /\ last.ret.warnings = {"non-standard"}
    /\ OkSetOn(last.prev, "MNE_STIM_CHANNEL_7") /\ last.prev.value = Str("x")
    /\ Read("TOTALLY_UNKNOWN_KEY").val = Str("x")
    /\ Read("MNE_STIM_CHANNEL_7").val = Str("x")
    /\ get_config(Str("TOTALLY_UNKNOWN_KEY"), None, FALSE, None, TRUE).val = Str("x")

(* C4: at every point of a set_config execution, and after the process has  *)
(* died at any such point, the config file is the complete document it held *)
(* before the call or the complete new document, never an empty, truncated  *)
(* or partly written text.                                                  *)
C4_AtomicPersist ==
    /\ pc # "idle"
         => \/ FileOf(fs, pend.home) = pend.before
            \/ FileOf(fs, pend.home) = [content |-> json_dump(pend.config), isfile |-> TRUE]
    /\ ~ Corrupt(PwHome)


\* The keys of SpecKinds that are known and are in the environment
KnownInEnv == StandardKindKeys \cap DOMAIN env

(* C11: every environment variable whose name is a known key, by exact      *)
(* match or by a wildcard prefix, is in the snapshot that                   *)
(* get_config(key=None, use_env=True) returns, with its environment value.  *)
C11_WildcardOverlay ==
    (last.op = "get" /\ last.key = None /\ last.flag /\ last.ret.exc = "")
    => \A k \in KnownInEnv :
         k \in DOMAIN last.ret.map /\ last.ret.map[k] = env[k]


(* C12: two calls of get_config_path with the same home_dir return the same *)
(* path, whichever get_config or set_config call of this process runs in    *)
(* between.                                                                 *)
C12_IdempotentPath ==
    [][(last.op = "path" /\ last.home_dir = None /\ last.ret.exc = ""
          /\ last'.op \in {"get", "set"})
         => Str(get_config_path(None))' = last.ret.val]_vars


\* The first available home directory, in the order C13 gives; "" if there
\* is none
FirstAvailableHome(home_dir) ==
    LET has(v) == v \in DOMAIN env
    IN  IF home_dir # None THEN home_dir.s
        ELSE IF has("_MNE_FAKE_HOME_DIR") THEN env["_MNE_FAKE_HOME_DIR"]
        ELSE IF os_name # "nt" THEN PwHome
        ELSE IF has("APPDATA") /\ env["APPDATA"] \in DOMAIN fs /\ fs[env["APPDATA"]].mne
        THEN env["APPDATA"]
        ELSE IF has("USERPROFILE") THEN env["USERPROFILE"]
        ELSE ""

C14_LastWriterWins ==
    [][peer' = peer
         => /\ (pc = "dump" /\ pc' = "idle" /\ peer.pc = "idle")
                 => FileOf(fs', pend.home) =
                        [content |-> json_dump(pend.config), isfile |-> TRUE]
            /\ last'.op = "get" => "corrupt" \notin last'.ret.warnings]_vars


(* C15: set_config with a key that is no string, or a value that is no      *)
(* string, path or None, raises TypeError, leaves the file system and the   *)
(* environment as they were and emits no warning; get_config with a key     *)
(* that is neither a string nor None raises TypeError without resolving     *)
(* the path or reading the file.                                            *)
C15_ValidationFirst ==
    [][/\ (last'.op = "set"
             /\ (last'.key.ty # "str" \/ last'.value.ty \notin {"str", "path", "NoneType"}))
          => /\ last'.ret.exc = "TypeError"
             /\ fs' = fs /\ env' = env /\ temp_home_dir' = temp_home_dir
             /\ last'.ret.warnings = {}
       /\ (last'.op = "get" /\ last'.key.ty \notin {"str", "NoneType"})
          => /\ last'.ret.exc = "TypeError"
             /\ fs' = fs /\ env' = env
             /\ last'.ret.home = "" /\ last'.ret.warnings = {}]_vars

\* A number was refused as the value of a non-standard key that was to be
\* put in the environment
C15_Witness ==
    /\ last.op = "set" /\ last.key = Str("TOTALLY_UNKNOWN_KEY")
    /\ last.value = IntVal("7") /\ last.flag
    /\ last.ret.exc = "TypeError"
    /\ "TOTALLY_UNKNOWN_KEY" \notin DOMAIN env
    /\ ~ isfile(fs, PwHome)

\* Every value of the document under home and of the environment is the
\* string form of a string or of a path
AllStrings(home) ==
    /\ \A k \in DOMAIN Document(home) : Document(home)[k] \in ArgTexts
    /\ \A k \in DOMAIN env : env[k] \in ArgTexts

(* C16: from an absent file or one whose values are strings, after any      *)
(* set_config calls every value of the persisted document and of the        *)
(* environment is a string, never None; a set_config(k, v) that returned    *)
(* stored the string form str(v) of v (of a path too) under k, and with     *)
(* v = None left k out.                                                     *)
C16_StringValues ==
    /\ AllStrings(PwHome)
    /\ (last.op = "set" /\ last.ret.exc = "")
         => LET k == last.key.s
            IN  IF last.value = None
                THEN k \notin DOMAIN Document(PwHome) /\ (last.flag => k \notin DOMAIN env)
                ELSE /\ str(last.value).ty = "str"
                     /\ k \in DOMAIN Document(PwHome)
                     /\ Document(PwHome)[k] = str(last.value).s
                     /\ last.flag => (k \in DOMAIN env /\ env[k] = str(last.value).s)

\* A path was stored as its string form in the file and the environment,
\* after a deletion
C16_Witness ==
    /\ last.op = "set" /\ last.ret.exc = "" /\ last.flag
    /\ last.value = PathLike("/tmp/x")
    /\ last.prev.op = "set" /\ last.prev.value = None /\ last.prev.exc = ""
    /\ Document(PwHome)[last.key.s] = "/tmp/x"
    /\ env[last.key.s] = "/tmp/x"


\* The helper call was refused: its argument is a directory that does not
\* exist, or no string that ends in K, M or G
BadHelperArg(c) ==
    /\ c.value # None
    /\ \/ c.op = "set_cache_dir" /\ ~ exists(fs, c.value.s)
       \/ /\ c.op = "set_memmap_min_size"
          /\ \/ c.value.ty # "str"
             \/ c.value.s = ""
             \/ SubSeq(c.value.s, Len(c.value.s), Len(c.value.s)) \notin {"K", "M", "G"}

(* C17: after set_cache_dir(None) (set_memmap_min_size(None)) has returned, *)
(* get_config('MNE_CACHE_DIR') (get_config('MNE_MEMMAP_MIN_SIZE')) returns  *)
(* None, whatever calls the process made before, a set_config of the key    *)
(* with set_env=True included; and either helper raises on an argument that *)
(* fails its validation, leaving file system and environment as they were.  *)
C17_HelpersDisable ==
    [][(last'.op \in {"set_cache_dir", "set_memmap_min_size"})
         => /\ (last'.value = None /\ last'.ret.exc = "")
                 => LET g == get_config(last.key, None, FALSE, None, TRUE)'
                    IN  g.exc = "" /\ g.val = None
            /\ BadHelperArg(last')
                 => (last'.ret.exc # "" /\ fs' = fs /\ env' = env)]_vars


\* The value get_subjects_dir works with: the argument if given, else the
\* effective value of SUBJECTS_DIR; None if there is none
SubjectsValue(given) ==
    IF given # None THEN Str(given.s) ELSE Effective("SUBJECTS_DIR", None, TRUE)

(* C18: get_subjects_dir(subjects_dir, raise_error) uses subjects_dir if    *)
(* given, else the effective value of SUBJECTS_DIR (environment, then       *)
(* file); it returns that value if it names an existing directory and       *)
(* raises a path error if not; with no value it returns None, or raises     *)
(* KeyError under raise_error; a given argument is never overridden.        *)
C18_SubjectsDir ==
    (last.op = "get_subjects_dir" /\ last.value.ty \in {"str", "path", "NoneType"})
    => LET v == SubjectsValue(last.value)
       IN  IF v # None
           THEN IF v.s \in {PwHome, PwHome \o "/.mne"} /\ (v.s = PwHome \/ fs[PwHome].mne)
                THEN last.ret.exc = "" /\ last.ret.val.s = v.s
                ELSE last.ret.exc = "OSError"
           ELSE IF last.raise_error
           THEN last.ret.exc = "KeyError"
           ELSE last.ret.exc = "" /\ last.ret.val = None

\* The argument was returned although the environment and the file name
\* other values for SUBJECTS_DIR
C18_Witness ==
    /\ last.op = "get_subjects_dir" /\ last.value = Str(PwHome)
    /\ last.ret.exc = "" /\ last.ret.val = Str(PwHome)
    /\ "SUBJECTS_DIR" \in DOMAIN env /\ env["SUBJECTS_DIR"] = "/missing"
    /\ "SUBJECTS_DIR" \in DOMAIN Document(PwHome)
    /\ Document(PwHome)["SUBJECTS_DIR"] # PwHome


\* The no-write flag as line 354 reads it
DontWriteHome == "MNE_DONTWRITE_HOME" \in DOMAIN env /\ env["MNE_DONTWRITE_HOME"] = "true"

(* C19: in one process at most one temporary home directory is made, one    *)
(* exit-time cleanup is registered for it, every resolution that falls back *)
(* to the temporary directory gives that directory, and after an orderly    *)
(* exit the directory is gone.                                              *)
C19_TempOnce ==
    [][/\ Len(atexit') <= 1
       /\ (temp_home_dir' = None) <=> (atexit' = <<>>)
       /\ temp_home_dir' # None
            => /\ atexit' = <<temp_home_dir'.s>>
               /\ temp_home_dir'.s \in DOMAIN fs'
               /\ DOMAIN fs' \cap TempNames = {temp_home_dir'.s}
       /\ (temp_home_dir # None /\ last' # NoCall) => temp_home_dir' = temp_home_dir
       /\ (last' # NoCall /\ last'.ret.home # "" /\ DontWriteHome)
            => /\ temp_home_dir' # None
               /\ last'.ret.home = temp_home_dir'.s
       /\ (last' # NoCall /\ last'.ret.home \in TempNames)
            => last'.ret.home = temp_home_dir'.s
       /\ last' = NoCall => DOMAIN fs' \cap TempNames = {}]_vars

\* A call resolved to the temporary directory an earlier call had made
C19_Witness ==
    /\ last.op = "set" /\ last.ret.exc = ""
    /\ temp_home_dir # None
    /\ last.ret.home = temp_home_dir.s
    /\ ~ last.ret.mkdtemp
    /\ atexit = <<temp_home_dir.s>>
    /\ isfile(fs, temp_home_dir.s)


(* C20 as claimed: on a POSIX platform, with no home_dir and no fake home,  *)
(* a call made while MNE_DONTWRITE_HOME is set resolves the path under the  *)
(* temporary directory and changes nothing under the user's home; a call    *)
(* made while it is not set resolves the path under the user's home.        *)
C20_NoWriteFlagSet ==
    [][(last' # NoCall /\ last'.home_dir = None /\ last'.ret.home # "")
         => IF "MNE_DONTWRITE_HOME" \in DOMAIN env
            THEN /\ temp_home_dir' # None
                 /\ last'.ret.home = temp_home_dir'.s
                 /\ last'.ret.home \in TempNames
                 /\ fs'[PwHome] = fs[PwHome]
            ELSE last'.ret.home = PwHome]_vars

(* C20: on a POSIX platform, with no home_dir and no fake home, a call made *)
(* while MNE_DONTWRITE_HOME has the value 'true' resolves the path under    *)
(* the temporary directory and changes nothing under the user's home; a     *)
(* call made while it is unset or has another value resolves the path       *)
(* under the user's home.                                                   *)
C20_NoWriteFlagTrue ==
    [][(last' # NoCall /\ last'.home_dir = None /\ last'.ret.home # "")
         => IF "MNE_DONTWRITE_HOME" \in DOMAIN env /\ env["MNE_DONTWRITE_HOME"] = "true"
            THEN /\ temp_home_dir' # None
                 /\ last'.ret.home = temp_home_dir'.s
                 /\ last'.ret.home \in TempNames
                 /\ fs'[PwHome] = fs[PwHome]
            ELSE last'.ret.home = PwHome]_vars

\* With the flag at 'false', set_config wrote the file in the user's home
C20_Witness ==
    /\ last.op = "set" /\ last.ret.exc = "" /\ ~ last.flag
    /\ "MNE_DONTWRITE_HOME" \in DOMAIN env /\ env["MNE_DONTWRITE_HOME"] = "false"
    /\ last.ret.home = PwHome
    /\ isfile(fs, PwHome)
    /\ DOMAIN fs \cap TempNames = {}


\* The document set_config(k, v) is to leave, built from the document doc
Rewritten(doc, k, v) ==
    IF v = None
    THEN [j \in DOMAIN doc \ {k} |-> doc[j]]
    ELSE [j \in DOMAIN doc \cup {k} |-> IF j = k THEN v.s ELSE doc[j]]

(* C21: what a get_config call gives is determined by its arguments, the    *)
(* config file as it is at the call and the environment as it is at the     *)
(* call, also when either was changed from outside the store since the last *)
(* call; and a set_config that returns leaves the document that is the file *)
(* as it is at the call with the one key changed.                           *)
C21_Stateless ==
    [][/\ (last' # last /\ last'.op = "get")
            => LET k == last'.key
                   E == last'.flag
               IN  /\ fs' = fs /\ env' = env
                   /\ last'.ret.warnings =
                        IF Corrupt(PwHome) /\ ReachesFile(last') THEN {"corrupt"} ELSE {}
                   /\ IF k = None
                      THEN last'.ret.exc = "" /\ last'.ret.map = Snapshot(E)
                      ELSE IF E /\ k.s \in DOMAIN env
                      THEN last'.ret.exc = "" /\ last'.ret.val = Str(env[k.s])
                      ELSE IF k.s \in DOMAIN Document(PwHome)
                      THEN last'.ret.exc = ""
                           /\ last'.ret.val = Str(Document(PwHome)[k.s])
                      ELSE IF last'.raise_error
                      THEN last'.ret.exc = "KeyError"
                      ELSE last'.ret.exc = "" /\ last'.ret.val = last'.value
       /\ (last' # last /\ last'.op = "set" /\ last'.ret.exc = "")
            => Document(PwHome)' = Rewritten(Document(PwHome), last'.key.s, last'.value)]_vars

\* set_config('TOTALLY_UNKNOWN_KEY', 'a') returned, the file was then edited
\* from outside to hold 'b' under that key, and the next set_config, on
\* MNE_CACHE_DIR, wrote a document that holds 'b' under it
C21_Witness ==
    /\ DidSet(last, "MNE_CACHE_DIR", Str("a"), FALSE)
    /\ last.prev.op = "set" /\ last.prev.exc = ""
    /\ last.prev.key = Str("TOTALLY_UNKNOWN_KEY") /\ last.prev.value = Str("a")
    /\ Document(PwHome) =
         [j \in Keys |-> IF j = "MNE_CACHE_DIR" THEN "a" ELSE "b"]


\* The call c left the file system, the environment and the temporary home
\* directory alone and resolved no path
TouchedNothing(c) ==
    /\ c.ret.home = "" /\ ~ c.ret.mkdtemp
    /\ UNCHANGED <<fs, env, temp_home_dir, atexit>>

(* C22: get_config(key, use_env=True) with a non-empty string key that is   *)
(* in the environment returns the environment value with no warning and no  *)
(* error, without resolving the config path, reading the file or making     *)
(* the temporary home directory, also when the file is corrupt or its       *)
(* location cannot be determined; get_config('') returns the known keys     *)
(* in the same way.                                                         *)
C22_EnvShortCircuit ==
    [][(last'.op = "get" /\ last'.key.ty = "str")
         => /\ (last'.key.s # "" /\ last'.flag /\ last'.key.s \in DOMAIN env)
                 => /\ last'.ret.exc = "" /\ last'.ret.warnings = {}
                    /\ last'.ret.val = Str(env[last'.key.s])
                    /\ TouchedNothing(last')
            /\ last'.key.s = ""
                 => /\ last'.ret.exc = "" /\ last'.ret.warnings = {}
                    /\ last'.ret.val = KnownTuple
                    /\ TouchedNothing(last')]_vars

\* The environment value came back although the file is corrupt and the
\* path would resolve to a temporary directory that was never made
C22_Witness ==
    /\ last.op = "get" /\ last.key = Str("MNE_CACHE_DIR") /\ last.flag
    /\ last.ret.exc = "" /\ last.ret.val = Str("env_value") /\ last.ret.warnings = {}
    /\ os_name = "posix" /\ Corrupt(PwHome)
    /\ DontWriteHome /\ temp_home_dir = None /\ DOMAIN fs \cap TempNames = {}


\* A get_config or get_config_path step leaves every directory as it is; a
\* directory it makes (the temporary home) holds no .mne directory
ReadsCreateNothing ==
    last'.op \in {"get", "path"}
    => /\ \A h \in DOMAIN fs : h \in DOMAIN fs' /\ fs'[h] = fs[h]
       /\ \A h \in DOMAIN fs' \ DOMAIN fs : fs'[h] = NewDir

\* A get_config step that finds no file gives what the empty document gives
AbsentReadsAsEmpty ==
    (last'.op = "get" /\ last'.ret.home # "" /\ ~ isfile(fs', last'.ret.home))
    => /\ last'.ret.warnings = {}
       /\ IF last'.key = None
          THEN last'.ret.exc = "" /\ last'.ret.map = EmptyDict
          ELSE IF last'.raise_error
          THEN last'.ret.exc = "KeyError"
          ELSE last'.ret.exc = "" /\ last'.ret.val = last'.value

\* A set_config step that finds no file: under a home directory that exists
\* it makes .mne and the file, which holds the new document (the empty one
\* for value None); under one that does not exist it raises and makes nothing
FirstWriteCreates ==
    (last'.op = "set" /\ last'.ret.home # "" /\ ~ isfile(fs, last'.ret.home))
    => LET home == last'.ret.home
       IN  IF home = MissingHome
           THEN last'.ret.exc = "FileNotFoundError" /\ fs' = fs
           ELSE /\ last'.ret.exc = ""
                /\ isdir_mne(fs', home) /\ isfile(fs', home)
                /\ fs'[home].content =
                     json_dump(Rewritten(EmptyDict, last'.key.s, last'.value))
                /\ last'.value = None => fs'[home].content = <<LBrace, RBrace>>

\* The config files in homes are kept by a step that is no set_config
Persists(homes) ==
    last'.op # "set"
    => \A h \in homes : isfile(fs, h) => (isfile(fs', h) /\ fs'[h] = fs[h])

(* C23 as claimed: get_config and get_config_path create and change         *)
(* nothing of the config file and its .mne directory; get_config on an      *)
(* absent file gives what an empty document gives; the first set_config     *)
(* makes .mne (one level: it raises if the home directory is missing) and   *)
(* the file, the empty document for value None; and every file written      *)
(* stays for later calls and later process runs.                            *)
C23_LazyCreationAlways ==
    [][/\ ReadsCreateNothing
       /\ AbsentReadsAsEmpty
       /\ FirstWriteCreates
       /\ Persists(DOMAIN fs)]_vars

(* C23: the same, where the files that stay for later process runs are      *)
(* those outside the temporary home directory, which the exit of the        *)
(* process removes with the file in it.                                     *)
C23_LazyCreation ==
    [][/\ ReadsCreateNothing
       /\ AbsentReadsAsEmpty
       /\ FirstWriteCreates
       /\ Persists(DOMAIN fs \ TempNames)
       /\ last'.op \in {"get", "path"} => Persists(DOMAIN fs)]_vars

\* get_config reads the empty document that a set_config(k, None) wrote
\* under the user's home, where no run started with a file
C23_Witness ==
    /\ last.op = "get" /\ last.key = None /\ last.ret.exc = ""
    /\ last.ret.home = PwHome /\ last.ret.map = EmptyDict
    /\ isfile(fs, PwHome) /\ fs[PwHome].content = <<LBrace, RBrace>>


\* The document the config file under home holds in the file system fs0
DocumentIn(fs0, home) ==
    IF isfile(fs0, home) /\ json_valid(fs0[home].content)
    THEN json_load(fs0[home].content)
    ELSE EmptyDict

\* The mappings a and b agree on every key but k
SameBut(a, b, k) ==
    /\ DOMAIN a \ {k} = DOMAIN b \ {k}
    /\ \A j \in DOMAIN a \ {k} : a[j] = b[j]

(* C24: a set_config(k, v, set_env=S) that returned left every pair of the  *)
(* document but that of k as the file held it, every other config file as   *)
(* it was, and every environment variable but k as it was, the environment  *)
(* as a whole if S is false; get_config and get_config_path leave every     *)
(* config file and the environment as they were.                            *)
C24_WriteFrame ==
    [][/\ (last'.op = "set" /\ last'.ret.exc = "")
            => LET home == last'.ret.home
                   k == last'.key.s
               IN  /\ SameBut(DocumentIn(fs, home), DocumentIn(fs', home), k)
                   /\ \A h \in DOMAIN fs \ {home} : fs'[h] = fs[h]
                   /\ SameBut(env, env', k)
                   /\ ~ last'.flag => env' = env
       /\ last'.op \in {"get", "path"}
            => /\ env' = env
               /\ \A h \in DOMAIN fs : fs'[h] = fs[h]]_vars

\* set_config('MNE_CACHE_DIR', None, set_env=False) returned: the other key
\* of the document is as it was written before and the environment still
\* holds MNE_CACHE_DIR
C24_Witness ==
    /\ DidSet(last, "MNE_CACHE_DIR", None, FALSE)
    /\ last.ret.home = PwHome
    /\ Document(PwHome) = [j \in {"MNE_DONTWRITE_HOME"} |-> "true"]
    /\ last.prev.op = "set" /\ last.prev.key = Str("MNE_DONTWRITE_HOME")
    /\ last.prev.exc = "" /\ ~ last.prev.flag
    /\ "MNE_CACHE_DIR" \in DOMAIN env


\* The errors os.mkdir and open raise
IOErrors == {"FileNotFoundError", "PermissionError"}

(* C25: a set_config(k, v, set_env=True) that fails where it makes the      *)
(* directory or opens the file raises that I/O error, leaves the file       *)
(* system as it was and has changed the environment all the same: k is v,   *)
(* or is gone for v = None; with set_env=False the environment is as it     *)
(* was. The write is tried once: the error is raised exactly when the home  *)
(* directory is missing or read-only.                                       *)
C25_EnvBeforePersist ==
    [][(last'.op = "set" /\ last'.ret.exc \notin {"", "RuntimeError"})
         => LET k == last'.key.s
                home == last'.ret.home
            IN  /\ last'.ret.exc \in IOErrors
                /\ last'.ret.exc = "FileNotFoundError" <=> home \notin DOMAIN fs
                /\ last'.ret.exc = "PermissionError"
                     <=> (home \in DOMAIN fs /\ ~ fs[home].writable)
                /\ fs' = fs
                /\ env' = IF ~ last'.flag THEN env
                          ELSE IF last'.value = None THEN DictPop(env, k)
                          ELSE DictSet(env, k, last'.value.s)]_vars

\* set_config('MNE_CACHE_DIR', 'new_value') failed on a read-only home, and
\* now get_config('MNE_CACHE_DIR') gives 'new_value' while
\* get_config('MNE_CACHE_DIR', use_env=False) gives what the file held
C25_Witness ==
    /\ last.op = "set" /\ last.flag /\ last.ret.exc = "PermissionError"
    /\ last.key = Str("MNE_CACHE_DIR") /\ last.value = Str("new_value")
    /\ get_config(Str("MNE_CACHE_DIR"), None, FALSE, None, TRUE).val = Str("new_value")
    /\ get_config(Str("MNE_CACHE_DIR"), None, FALSE, None, FALSE).val = Str("old_value")

=============================================================================
